---- MODULE Spec2Model ----
(***************************************************************************)
(* Restaurant finder popup (popup.js): the JSON extraction primitive, the  *)
(* three-attempt suggestion pipeline, the credential vault (PBKDF2 ->      *)
(* AES-GCM, base64 fields, chrome.storage.local) and the click handlers.   *)
(*                                                                         *)
(* A JavaScript string is a sequence of one-character strings.             *)
(***************************************************************************)
EXTENDS Integers, Sequences, FiniteSets, TLC

VARIABLES
    sessionApiKey,  \* the decrypted key cached for the popup session, or null
    storage,        \* chrome.storage.local: the value under gemini_encrypted
    resultsDiv,     \* what the results area shows
    tasks,          \* the click handlers in flight, each suspended at an await
    net,            \* the generateContent requests that have no response yet
    out,            \* what the last step did: response consumed, value returned, alert
    input,          \* argument handed to extractFirstJson (pure-function runs)
    frame,          \* how `input` was put together: prefix, object, suffix
    extracted,      \* what extractFirstJson returned for `input`
    envelope,       \* a parsed response body handed to callGemini's text step
    probed          \* the text callGemini made of `envelope`

appVars == <<sessionApiKey, storage, resultsDiv, tasks, net, out>>
extractVars == <<input, frame, extracted, envelope, probed>>
vars == <<sessionApiKey, storage, resultsDiv, tasks, net, out, input, frame, extracted,
          envelope, probed>>

(***************************************************************************)
(* Bounds.                                                                 *)
(***************************************************************************)
MaxTasks == 2        \* click handlers that can be in flight at once
MaxTextLen == 4      \* arbitrary texts: every text up to this length
MaxStrItems == 2     \* items (characters or escapes) of a generated string
MaxNoiseLen == 1     \* length of the noise before and after an object

(***************************************************************************)
(* Characters.                                                             *)
(***************************************************************************)
LBRACE == "{"
RBRACE == "}"
QUOTE == "\""
BACKSLASH == "\\"
COLON == ":"
COMMA == ","
SPACE == " "

Digits == {"0", "1", "2", "3", "4", "5", "6", "7", "8", "9"}

DigitValue(c) ==
    CASE c = "0" -> 0 [] c = "1" -> 1 [] c = "2" -> 2 [] c = "3" -> 3
      [] c = "4" -> 4 [] c = "5" -> 5 [] c = "6" -> 6 [] c = "7" -> 7
      [] c = "8" -> 8 [] c = "9" -> 9

\* Every sequence over S of length 0..n.
SeqsUpTo(S, n) == UNION {[1..k -> S] : k \in 0..n}

RECURSIVE Concat(_)
Concat(ss) == IF ss = <<>> THEN <<>> ELSE Head(ss) \o Concat(Tail(ss))

(***************************************************************************)
(* JavaScript values produced by JSON.parse, in one record shape:          *)
(* t is the type, n a number, s a string, m an object's members in         *)
(* insertion order as <<key, value>> pairs.                                *)
(***************************************************************************)
JNum(n) == [t |-> "number", n |-> n, s |-> <<>>, m |-> <<>>]
JStr(s) == [t |-> "string", n |-> 0, s |-> s, m |-> <<>>]
JObj(m) == [t |-> "object", n |-> 0, s |-> <<>>, m |-> m]
JUndefined == [t |-> "undefined", n |-> 0, s |-> <<>>, m |-> <<>>]
JNull == [t |-> "null", n |-> 0, s |-> <<>>, m |-> <<>>]
\* An array: m holds its elements in order.
JArr(m) == [t |-> "array", n |-> 0, s |-> <<>>, m |-> m]

\* obj[key] = value: a repeated key keeps its place and takes the new value.
RECURSIVE PutMember(_, _, _)
PutMember(m, key, val) ==
    IF m = <<>> THEN <<<<key, val>>>>
    ELSE IF Head(m)[1] = key THEN <<<<key, val>>>> \o Tail(m)
    ELSE <<Head(m)>> \o PutMember(Tail(m), key, val)

\* obj.key, undefined when the object has no such member.
RECURSIVE GetMember(_, _)
GetMember(m, key) ==
    IF m = <<>> THEN JUndefined
    ELSE IF Head(m)[1] = key THEN Head(m)[2]
    ELSE GetMember(Tail(m), key)

\* JavaScript truthiness (what `if (x)` tests).
Truthy(v) ==
    CASE v.t = "undefined" -> FALSE
      [] v.t = "number" -> v.n # 0
      [] v.t = "string" -> v.s # <<>>
      [] v.t = "object" -> TRUE
      [] v.t = "array" -> TRUE
      [] v.t = "null" -> FALSE

\* null and undefined: what `?.` stops at, what `??` replaces, and where a
\* plain property access throws a TypeError.
Nullish(v) == v.t \in {"undefined", "null"}

KeyLength == <<"l", "e", "n", "g", "t", "h">>

\* v.key for a v that is not nullish.
Prop(v, key) ==
    CASE v.t = "object" -> GetMember(v.m, key)
      [] v.t = "array" -> IF key = KeyLength THEN JNum(Len(v.m)) ELSE JUndefined
      [] v.t = "string" -> IF key = KeyLength THEN JNum(Len(v.s)) ELSE JUndefined
      [] OTHER -> JUndefined

\* v[0] for a v that is not nullish.
First(v) ==
    CASE v.t = "array" -> IF v.m = <<>> THEN JUndefined ELSE v.m[1]
      [] v.t = "string" -> IF v.s = <<>> THEN JUndefined ELSE JStr(<<v.s[1]>>)
      [] v.t = "object" -> GetMember(v.m, <<"0">>)
      [] OTHER -> JUndefined

\* v?.key and v?.[0].
Opt(v, key) == IF Nullish(v) THEN JUndefined ELSE Prop(v, key)
OptFirst(v) == IF Nullish(v) THEN JUndefined ELSE First(v)

(***************************************************************************)
(* JSON.parse, as called on a candidate slice (popup.js line 168), for the *)
(* JSON the model's texts can spell: objects, strings with the escapes     *)
(* \" \\ \/ \n \r \t, non-negative integers, blanks between tokens.        *)
(* A result is [ok, pos, val]: ok = FALSE is the SyntaxError it throws.    *)
(***************************************************************************)
ParseFail == [ok |-> FALSE, pos |-> 0, val |-> JUndefined]
ParseOk(pos, val) == [ok |-> TRUE, pos |-> pos, val |-> val]

RECURSIVE SkipWs(_, _)
SkipWs(s, i) == IF i <= Len(s) /\ s[i] = SPACE THEN SkipWs(s, i + 1) ELSE i

EscapeChars == {QUOTE, BACKSLASH, "/", "n", "r", "t"}

Unescape(c) ==
    CASE c = "n" -> "\n" [] c = "r" -> "\r" [] c = "t" -> "\t" [] OTHER -> c

\* i is the position after the opening quote, acc the characters decoded so far.
RECURSIVE ParseStringBody(_, _, _)
ParseStringBody(s, i, acc) ==
    IF i > Len(s) THEN ParseFail
    ELSE IF s[i] = QUOTE THEN ParseOk(i + 1, JStr(acc))
    ELSE IF s[i] = BACKSLASH THEN
        IF i + 1 <= Len(s) /\ s[i + 1] \in EscapeChars
        THEN ParseStringBody(s, i + 2, Append(acc, Unescape(s[i + 1])))
        ELSE ParseFail
    ELSE ParseStringBody(s, i + 1, Append(acc, s[i]))

RECURSIVE ParseDigits(_, _, _)
ParseDigits(s, i, acc) ==
    IF i <= Len(s) /\ s[i] \in Digits
    THEN ParseDigits(s, i + 1, (10 * acc) + DigitValue(s[i]))
    ELSE ParseOk(i, JNum(acc))

\* JSON has no leading zeros: 0 is a number, 01 is not.
ParseNumber(s, i) ==
    IF s[i] = "0" THEN ParseOk(i + 1, JNum(0)) ELSE ParseDigits(s, i, 0)

RECURSIVE ParseValue(_, _)
RECURSIVE ParseMembers(_, _, _)
ParseValue(s, i0) ==
    LET i == SkipWs(s, i0) IN
    IF i > Len(s) THEN ParseFail
    ELSE IF s[i] = LBRACE THEN
        LET j == SkipWs(s, i + 1) IN
        IF j <= Len(s) /\ s[j] = RBRACE THEN ParseOk(j + 1, JObj(<<>>))
        ELSE ParseMembers(s, j, <<>>)
    ELSE IF s[i] = QUOTE THEN ParseStringBody(s, i + 1, <<>>)
    ELSE IF s[i] \in Digits THEN ParseNumber(s, i)
    ELSE ParseFail

\* "key" : value, then either a comma and more members or the closing brace.
ParseMembers(s, i0, acc) ==
    LET i == SkipWs(s, i0) IN
    IF i > Len(s) \/ s[i] # QUOTE THEN ParseFail
    ELSE
        LET k == ParseStringBody(s, i + 1, <<>>) IN
        IF ~k.ok THEN ParseFail
        ELSE
            LET c == SkipWs(s, k.pos) IN
            IF c > Len(s) \/ s[c] # COLON THEN ParseFail
            ELSE
                LET v == ParseValue(s, c + 1) IN
                IF ~v.ok THEN ParseFail
                ELSE
                    LET e == SkipWs(s, v.pos)
                        acc2 == PutMember(acc, k.val.s, v.val)
                    IN  IF e > Len(s) THEN ParseFail
                        ELSE IF s[e] = RBRACE THEN ParseOk(e + 1, JObj(acc2))
                        ELSE IF s[e] = COMMA THEN ParseMembers(s, e + 1, acc2)
                        ELSE ParseFail

JsonParse(s) ==
    LET r == ParseValue(s, 1) IN
    IF r.ok /\ SkipWs(s, r.pos) > Len(s) THEN r ELSE ParseFail

(***************************************************************************)
(* extractFirstJson (popup.js lines 149-178).                              *)
(***************************************************************************)
\* An argument of extractFirstJson: a string, or some other JavaScript value.
JsString(chars) == [type |-> "string", chars |-> chars]
JsOther(type) == [type |-> type, chars |-> <<>>]

\* text.indexOf(c): the first position (from 1) of c in text, 0 for -1.
RECURSIVE IndexFrom(_, _, _)
IndexFrom(text, c, i) ==
    IF i > Len(text) THEN 0
    ELSE IF text[i] = c THEN i
    ELSE IndexFrom(text, c, i + 1)

\* Mutant of indexOf: the last occurrence instead of the first.
RECURSIVE LastIndexFrom(_, _, _)
LastIndexFrom(text, c, i) ==
    IF i < 1 THEN 0
    ELSE IF text[i] = c THEN i
    ELSE LastIndexFrom(text, c, i - 1)

indexOf_last(text, c) == LastIndexFrom(text, c, Len(text))

indexOf(text, c) == IndexFrom(text, c, 1)

\* The value of the literal '\\\\' of line 159: two backslash characters.
EscapeLiteral == <<BACKSLASH, BACKSLASH>>

\* ch === literal, ch being one character of the text.
StrictEq(ch, literal) == <<ch>> = literal

\* What the function returns; iters counts the passes through the loop body.
ExtractNull(iters) ==
    [found |-> FALSE, raised |-> FALSE, text |-> <<>>, parsed |-> JUndefined,
     iters |-> iters]
ExtractFound(candidate, parsed, iters) ==
    [found |-> TRUE, raised |-> FALSE, text |-> candidate, parsed |-> parsed,
     iters |-> iters]
ExtractRaised(iters) ==
    [found |-> FALSE, raised |-> TRUE, text |-> <<>>, parsed |-> JUndefined,
     iters |-> iters]

\* Mutant of TryParse: no try/catch, the SyntaxError leaves the function.
TryParse_nocatch(candidate) ==
    LET p == JsonParse(candidate) IN
    [ok |-> p.ok, raised |-> ~p.ok, val |-> p.val]

\* The try/catch of lines 167-173 around JSON.parse: a failed parse is
\* swallowed and the scan goes on.
TryParse(candidate) ==
    LET p == JsonParse(candidate) IN
    [ok |-> p.ok, raised |-> FALSE, val |-> p.val]

\* Mutant of ScanLoop: after a candidate that fails to parse the scan starts
\* over at the next '{'.
RECURSIVE ScanLoop_restart(_, _, _, _, _, _, _)
ScanLoop_restart(text, start, i, depth, inString, escape, iters) ==
    IF i > Len(text) THEN ExtractNull(iters)
    ELSE
        LET ch == text[i]
            n == iters + 1
        IN
        IF escape THEN ScanLoop_restart(text, start, i + 1, depth, inString, FALSE, n)
        ELSE IF StrictEq(ch, EscapeLiteral)
            THEN ScanLoop_restart(text, start, i + 1, depth, inString, TRUE, n)
        ELSE IF ch = QUOTE
            THEN ScanLoop_restart(text, start, i + 1, depth, ~inString, escape, n)
        ELSE IF inString
            THEN ScanLoop_restart(text, start, i + 1, depth, inString, escape, n)
        ELSE
            LET d1 == IF ch = LBRACE THEN depth + 1 ELSE depth
                d2 == IF ch = RBRACE THEN d1 - 1 ELSE d1
            IN
            IF ch = RBRACE /\ d2 = 0 THEN
                LET candidate == SubSeq(text, start, i)
                    p == TryParse(candidate)
                    again == IndexFrom(text, LBRACE, start + 1)
                IN  IF p.raised THEN ExtractRaised(n)
                    ELSE IF p.ok THEN ExtractFound(candidate, p.val, n)
                    ELSE IF again = 0 THEN ExtractNull(n)
                    ELSE ScanLoop_restart(text, again, again, 0, FALSE, FALSE, n)
            ELSE ScanLoop_restart(text, start, i + 1, d2, inString, escape, n)

\* The for loop of lines 156-176, from position i with the loop's variables.
RECURSIVE ScanLoop(_, _, _, _, _, _, _)
ScanLoop(text, start, i, depth, inString, escape, iters) ==
    IF i > Len(text) THEN ExtractNull(iters)
    ELSE
        LET ch == text[i]
            n == iters + 1
        IN
        IF escape THEN ScanLoop(text, start, i + 1, depth, inString, FALSE, n)
        ELSE IF StrictEq(ch, EscapeLiteral)
            THEN ScanLoop(text, start, i + 1, depth, inString, TRUE, n)
        ELSE IF ch = QUOTE
            THEN ScanLoop(text, start, i + 1, depth, ~inString, escape, n)
        ELSE IF inString
            THEN ScanLoop(text, start, i + 1, depth, inString, escape, n)
        ELSE
            LET d1 == IF ch = LBRACE THEN depth + 1 ELSE depth
                d2 == IF ch = RBRACE THEN d1 - 1 ELSE d1
            IN
            IF ch = RBRACE /\ d2 = 0 THEN
                LET candidate == SubSeq(text, start, i)
                    p == TryParse(candidate)
                IN  IF p.raised THEN ExtractRaised(n)
                    ELSE IF p.ok THEN ExtractFound(candidate, p.val, n)
                    ELSE ScanLoop(text, start, i + 1, d2, inString, escape, n)
            ELSE ScanLoop(text, start, i + 1, d2, inString, escape, n)

extractFirstJson(arg) ==
    IF arg.type # "string" \/ arg.chars = <<>> THEN ExtractNull(0)
    ELSE
        LET text == arg.chars
            start == indexOf(text, LBRACE)
        IN  IF start = 0 THEN ExtractNull(0)
            ELSE ScanLoop(text, start, start, 0, FALSE, FALSE, 0)

(***************************************************************************)
(* Strings that may be null: prompt() answers, sessionApiKey.  The keys    *)
(* and passphrases are sequences of UTF-16 code units (numbers).           *)
(***************************************************************************)
Null == [null |-> TRUE, s |-> <<>>]
Str(s) == [null |-> FALSE, s |-> s]
Falsy(v) == v.null \/ v.s = <<>>

RECURSIVE SumSeq(_)
SumSeq(q) == IF q = <<>> THEN 0 ELSE Head(q) + SumSeq(Tail(q))

(***************************************************************************)
(* base64Encode / base64Decode (popup.js lines 20-37) over btoa / atob.    *)
(***************************************************************************)
CHUNK == 32768

B64Alphabet ==
    <<"A", "B", "C", "D", "E", "F", "G", "H", "I", "J", "K", "L", "M",
      "N", "O", "P", "Q", "R", "S", "T", "U", "V", "W", "X", "Y", "Z",
      "a", "b", "c", "d", "e", "f", "g", "h", "i", "j", "k", "l", "m",
      "n", "o", "p", "q", "r", "s", "t", "u", "v", "w", "x", "y", "z",
      "0", "1", "2", "3", "4", "5", "6", "7", "8", "9", "+", "/">>
B64Pad == "="

B64Char(sextet) == B64Alphabet[sextet + 1]
B64Sextet(c) == (CHOOSE i \in DOMAIN B64Alphabet : B64Alphabet[i] = c) - 1

\* btoa: three bytes make four characters, the tail is padded with '='.
RECURSIVE btoa(_)
btoa(bin) ==
    IF bin = <<>> THEN <<>>
    ELSE IF Len(bin) = 1 THEN
        <<B64Char(bin[1] \div 4), B64Char((bin[1] % 4) * 16), B64Pad, B64Pad>>
    ELSE IF Len(bin) = 2 THEN
        <<B64Char(bin[1] \div 4),
          B64Char(((bin[1] % 4) * 16) + (bin[2] \div 16)),
          B64Char((bin[2] % 16) * 4), B64Pad>>
    ELSE
        <<B64Char(bin[1] \div 4),
          B64Char(((bin[1] % 4) * 16) + (bin[2] \div 16)),
          B64Char(((bin[2] % 16) * 4) + (bin[3] \div 64)),
          B64Char(bin[3] % 64)>> \o btoa(SubSeq(bin, 4, Len(bin)))

\* atob: four characters make up to three bytes.
RECURSIVE atob(_)
atob(b64) ==
    IF Len(b64) < 4 THEN <<>>
    ELSE
        LET a == B64Sextet(b64[1])
            b == B64Sextet(b64[2])
            rest == atob(SubSeq(b64, 5, Len(b64)))
        IN  IF b64[3] = B64Pad THEN <<(a * 4) + (b \div 16)>> \o rest
            ELSE
                LET c == B64Sextet(b64[3]) IN
                IF b64[4] = B64Pad
                THEN <<(a * 4) + (b \div 16), ((b % 16) * 16) + (c \div 4)>> \o rest
                ELSE <<(a * 4) + (b \div 16), ((b % 16) * 16) + (c \div 4),
                       ((c % 4) * 64) + B64Sextet(b64[4])>> \o rest

Min(a, b) == IF a < b THEN a ELSE b

\* The while loop of lines 24-28: the bytes as a binary string, chunk by chunk.
RECURSIVE FromCharCodeChunks(_, _)
FromCharCodeChunks(u8, idx) ==
    IF idx < Len(u8)
    THEN SubSeq(u8, idx + 1, Min(idx + CHUNK, Len(u8))) \o FromCharCodeChunks(u8, idx + CHUNK)
    ELSE <<>>

base64Encode(u8) == btoa(FromCharCodeChunks(u8, 0))

base64Decode(b64) ==
    LET binary == atob(b64) IN [i \in 1..Len(binary) |-> binary[i]]

(***************************************************************************)
(* TextEncoder.encode / TextDecoder.decode (UTF-8) and String.trim, for    *)
(* code units of the basic plane.                                          *)
(***************************************************************************)
Utf8Of(cp) ==
    IF cp < 128 THEN <<cp>>
    ELSE IF cp < 2048 THEN <<192 + (cp \div 64), 128 + (cp % 64)>>
    ELSE IF cp >= 55296 /\ cp <= 57343 THEN <<239, 191, 189>>
    ELSE <<224 + (cp \div 4096), 128 + ((cp \div 64) % 64), 128 + (cp % 64)>>

TextEncode(str) == Concat([i \in DOMAIN str |-> Utf8Of(str[i])])

IsCont(bytes, i) == i <= Len(bytes) /\ bytes[i] >= 128 /\ bytes[i] < 192

RECURSIVE Utf8Decode(_, _)
Utf8Decode(bytes, i) ==
    IF i > Len(bytes) THEN <<>>
    ELSE
        LET b == bytes[i] IN
        IF b < 128 THEN <<b>> \o Utf8Decode(bytes, i + 1)
        ELSE IF b >= 194 /\ b < 224 /\ IsCont(bytes, i + 1)
            THEN <<((b - 192) * 64) + (bytes[i + 1] - 128)>> \o Utf8Decode(bytes, i + 2)
        ELSE IF b >= 224 /\ b < 240 /\ IsCont(bytes, i + 1) /\ IsCont(bytes, i + 2)
            THEN <<((b - 224) * 4096) + ((bytes[i + 1] - 128) * 64) + (bytes[i + 2] - 128)>>
                     \o Utf8Decode(bytes, i + 3)
        ELSE <<65533>> \o Utf8Decode(bytes, i + 1)

BOM == 65279

\* new TextDecoder().decode: a leading byte order mark is dropped.
TextDecode(bytes) ==
    LET str == Utf8Decode(bytes, 1) IN
    IF str # <<>> /\ str[1] = BOM THEN Tail(str) ELSE str

WhiteSpace == {9, 10, 11, 12, 13, 32, 160, BOM}

RECURSIVE TrimStart(_)
TrimStart(str) ==
    IF str # <<>> /\ Head(str) \in WhiteSpace THEN TrimStart(Tail(str)) ELSE str

RECURSIVE TrimEnd(_)
TrimEnd(str) ==
    IF str # <<>> /\ str[Len(str)] \in WhiteSpace
    THEN TrimEnd(SubSeq(str, 1, Len(str) - 1)) ELSE str

Trim(str) == TrimEnd(TrimStart(str))

(***************************************************************************)
(* Key derivation and AES-GCM (popup.js lines 40-78).  crypto.subtle is    *)
(* idealised: the derived key is determined by passphrase bytes, salt and  *)
(* the PBKDF2 parameters; the cipher is a keyed byte substitution followed *)
(* by a 16-byte tag that depends on key, nonce and ciphertext, so that a   *)
(* different key or altered data fails authentication.                     *)
(***************************************************************************)
Pbkdf2Iterations == 200000
TagLen == 16

deriveKeyFromPassphrase(passphrase, saltUint8) ==
    [pass |-> TextEncode(passphrase), salt |-> saltUint8,
     iterations |-> Pbkdf2Iterations, hash |-> "SHA-256", length |-> 256]

KeyStream(key, iv) ==
    ((7 * SumSeq(key.pass)) + (3 * SumSeq(key.salt)) + SumSeq(iv)) % 256

GcmTag(key, iv, cipher) ==
    [i \in 1..TagLen |-> ((KeyStream(key, iv) * i) + SumSeq(cipher) + i) % 256]

AesGcmEncrypt(key, iv, data) ==
    LET cipher == [i \in 1..Len(data) |-> (data[i] + KeyStream(key, iv)) % 256]
    IN  cipher \o GcmTag(key, iv, cipher)

\* [ok, data]: ok = FALSE is the OperationError of a failed authentication.
AesGcmDecrypt(key, iv, data) ==
    IF Len(data) < TagLen THEN [ok |-> FALSE, data |-> <<>>]
    ELSE
        LET n == Len(data) - TagLen
            cipher == SubSeq(data, 1, n)
            tag == SubSeq(data, n + 1, Len(data))
        IN  IF tag # GcmTag(key, iv, cipher) THEN [ok |-> FALSE, data |-> <<>>]
            ELSE [ok |-> TRUE,
                  data |-> [i \in 1..n |-> (cipher[i] + 256 - KeyStream(key, iv)) % 256]]

\* salt and iv are the values crypto.getRandomValues returned.
encryptApiKey(apiKeyPlain, passphrase, salt, iv) ==
    LET key == deriveKeyFromPassphrase(passphrase, salt)
        cipherBuffer == AesGcmEncrypt(key, iv, TextEncode(apiKeyPlain))
    IN  [ciphertext |-> base64Encode(cipherBuffer),
         iv |-> base64Encode(iv),
         salt |-> base64Encode(salt)]

\* Mutant of decryptApiKey: the salt field is read where the nonce is meant.
decryptApiKey_salt_as_iv(encryptedObj, passphrase) ==
    LET salt == base64Decode(encryptedObj.salt)
        iv == base64Decode(encryptedObj.salt)
        cipher == base64Decode(encryptedObj.ciphertext)
        key == deriveKeyFromPassphrase(passphrase, salt)
        plainBuffer == AesGcmDecrypt(key, iv, cipher)
    IN  IF plainBuffer.ok THEN [ok |-> TRUE, s |-> TextDecode(plainBuffer.data)]
        ELSE [ok |-> FALSE, s |-> <<>>]

\* Mutant of decryptApiKey: the plaintext is returned without the tag check.
decryptApiKey_unauthenticated(encryptedObj, passphrase) ==
    LET salt == base64Decode(encryptedObj.salt)
        iv == base64Decode(encryptedObj.iv)
        cipher == base64Decode(encryptedObj.ciphertext)
        key == deriveKeyFromPassphrase(passphrase, salt)
        n == Len(cipher) - TagLen
    IN  [ok |-> TRUE,
         s |-> TextDecode([i \in 1..n |-> (cipher[i] + 256 - KeyStream(key, iv)) % 256])]

\* [ok, s]: ok = FALSE is the rejection of the promise.
decryptApiKey(encryptedObj, passphrase) ==
    LET salt == base64Decode(encryptedObj.salt)
        iv == base64Decode(encryptedObj.iv)
        cipher == base64Decode(encryptedObj.ciphertext)
        key == deriveKeyFromPassphrase(passphrase, salt)
        plainBuffer == AesGcmDecrypt(key, iv, cipher)
    IN  IF plainBuffer.ok THEN [ok |-> TRUE, s |-> TextDecode(plainBuffer.data)]
        ELSE [ok |-> FALSE, s |-> <<>>]

\* The key typed into the field, the passphrases typed into the prompts,
\* and the random salts and nonces of the runs.
ApiKeyInputs == {<<>>, <<32>>, <<32, 65, 32>>, <<BOM, 233, BOM, 66, 10>>}
ApiKeys == {Trim(v) : v \in ApiKeyInputs} \ {<<>>}
PassP == <<112>>
PassQ == <<113>>
Passphrases == {PassP, PassQ}
PromptAnswers == {Null, Str(<<>>)} \cup {Str(q) : q \in Passphrases}
Salts == {[i \in 1..16 |-> (37 * i) % 256]}
Nonces == {[i \in 1..12 |-> (200 + (11 * i)) % 256]}

\* encryptApiKey and decryptApiKey on the values of the runs, computed once.
EncryptTable ==
    [k \in ApiKeys, q \in Passphrases, salt \in Salts, iv \in Nonces |->
        encryptApiKey(k, q, salt, iv)]
EncryptedObjects ==
    {EncryptTable[k, q, salt, iv] :
        k \in ApiKeys, q \in Passphrases, salt \in Salts, iv \in Nonces}
DecryptTable ==
    [e \in EncryptedObjects, q \in Passphrases |-> decryptApiKey(e, q)]
Encrypted(k, q, salt, iv) == EncryptTable[k, q, salt, iv]
Decrypted(e, q) == DecryptTable[e, q]


(***************************************************************************)
(* Storage helpers (popup.js lines 81-89): chrome.storage.local holds one  *)
(* value under the key gemini_encrypted, or none.                          *)
(***************************************************************************)
NoEnc == [ciphertext |-> <<>>, iv |-> <<>>, salt |-> <<>>]
Absent == [present |-> FALSE, obj |-> NoEnc]

storeEncryptedKey(obj) == [present |-> TRUE, obj |-> obj]
getEncryptedKey(store) == store
clearStoredKey == Absent

(***************************************************************************)
(* The results area (popup.js lines 121-123, 259-311, 343).                *)
(***************************************************************************)
NoView ==
    [view |-> "empty", msg |-> <<>>, status |-> 0, data |-> JUndefined, food |-> ""]

setLoading(message) == [NoView EXCEPT !.view = "loading", !.msg = <<message>>]

\* The description and the restaurant cards drawn from data.
renderStructured(data, city, food) ==
    [NoView EXCEPT !.view = "structured", !.data = data, !.food = food]

\* The preformatted raw text with the retry and the copy button.
renderRaw(rawText) == [NoView EXCEPT !.view = "raw", !.data = rawText]

\* The inline error message: "Error: ..." or "Retry failed: ...".
ErrorView(prefix, err) ==
    [NoView EXCEPT !.view = "error", !.msg = <<prefix, err.msg>>, !.status = err.status]

RetryButtonShown == resultsDiv.view = "raw"

(***************************************************************************)
(* extractTextFromApiResponse (popup.js lines 132-146) and the text that   *)
(* callGemini returns for a response body (lines 193-196).  A probe of one *)
(* response shape either returns a text, falls through to the next shape,  *)
(* or throws a TypeError (a plain property access on null or undefined),   *)
(* which the function's catch turns into null.                             *)
(***************************************************************************)
KeyCandidates == <<"c", "a", "n", "d", "i", "d", "a", "t", "e", "s">>
KeyContent == <<"c", "o", "n", "t", "e", "n", "t">>
KeyParts == <<"p", "a", "r", "t", "s">>
KeyText == <<"t", "e", "x", "t">>
KeyOutput == <<"o", "u", "t", "p", "u", "t">>

ProbeNext == [kind |-> "next", val |-> JUndefined]
ProbeThrow == [kind |-> "throw", val |-> JUndefined]
ProbeReturn(v) == [kind |-> "return", val |-> v]

\* typeof parts[0].text === 'string', then return parts[0].text.
TextOfFirst(parts) ==
    IF Nullish(First(parts)) THEN ProbeThrow
    ELSE IF Prop(First(parts), KeyText).t = "string"
         THEN ProbeReturn(Prop(First(parts), KeyText))
    ELSE ProbeNext

\* parts?.length && typeof parts[0].text === 'string'
ProbeParts(parts) ==
    IF ~Truthy(Opt(parts, KeyLength)) THEN ProbeNext ELSE TextOfFirst(parts)

\* Line 136: cand?.content?.parts?.length && ...
ProbeContentParts(cand) == ProbeParts(Opt(Opt(cand, KeyContent), KeyParts))

\* Line 137: cand?.content?.length && cand.content[0].parts?.length && ...
ProbeContentList(content) ==
    IF ~Truthy(Opt(content, KeyLength)) THEN ProbeNext
    ELSE IF Nullish(First(content)) THEN ProbeThrow
    ELSE ProbeParts(Prop(First(content), KeyParts))

\* Lines 138 and 141: v?.output?.[0]?.content?.[0]?.text, returned when truthy.
OutputText(v) == Opt(OptFirst(Opt(OptFirst(Opt(v, KeyOutput)), KeyContent)), KeyText)
ProbeOutput(v) ==
    IF Truthy(OutputText(v)) THEN ProbeReturn(OutputText(v)) ELSE ProbeNext

\* Line 139: typeof cand?.text === 'string'
ProbeText(cand) ==
    IF Opt(cand, KeyText).t = "string" THEN ProbeReturn(Opt(cand, KeyText)) ELSE ProbeNext

\* Lines 134-140: the probes made when json?.candidates?.length is truthy.
CandidateProbes(cand) ==
    <<ProbeContentParts(cand), ProbeContentList(Opt(cand, KeyContent)),
      ProbeOutput(cand), ProbeText(cand)>>

\* The probes in the order the statements run; the first that does not fall
\* through decides, and a throw ends in the catch and `return null`.
RECURSIVE FirstOf(_)
FirstOf(probes) ==
    IF probes = <<>> THEN JNull
    ELSE IF Head(probes).kind = "next" THEN FirstOf(Tail(probes))
    ELSE IF Head(probes).kind = "throw" THEN JNull
    ELSE Head(probes).val

extractTextFromApiResponse(json) ==
    FirstOf((IF Truthy(Opt(Opt(json, KeyCandidates), KeyLength))
             THEN CandidateProbes(First(Opt(json, KeyCandidates)))
             ELSE <<>>)
            \o <<ProbeOutput(json)>>)

\* JSON.stringify of a value: no blanks, members in insertion order, an
\* undefined member left out, an undefined element written as null.
DigitChar(d) == CHOOSE c \in Digits : DigitValue(c) = d

RECURSIVE NumberText(_)
NumberText(n) ==
    IF n < 10 THEN <<DigitChar(n)>> ELSE NumberText(n \div 10) \o <<DigitChar(n % 10)>>

RECURSIVE QuoteChars(_)
QuoteChars(s) ==
    IF s = <<>> THEN <<>>
    ELSE (IF Head(s) \in {QUOTE, BACKSLASH} THEN <<BACKSLASH, Head(s)>> ELSE <<Head(s)>>)
         \o QuoteChars(Tail(s))

Quoted(s) == <<QUOTE>> \o QuoteChars(s) \o <<QUOTE>>

RECURSIVE Stringify(_)
RECURSIVE StringifyMembers(_, _)
RECURSIVE StringifyElements(_, _)
Stringify(v) ==
    CASE v.t = "string" -> Quoted(v.s)
      [] v.t = "number" -> NumberText(v.n)
      [] v.t = "null" -> <<"n", "u", "l", "l">>
      [] v.t = "object" -> <<LBRACE>> \o StringifyMembers(v.m, TRUE) \o <<RBRACE>>
      [] v.t = "array" -> <<"[">> \o StringifyElements(v.m, TRUE) \o <<"]">>
StringifyMembers(m, first) ==
    IF m = <<>> THEN <<>>
    ELSE IF Head(m)[2].t = "undefined" THEN StringifyMembers(Tail(m), first)
    ELSE (IF first THEN <<>> ELSE <<COMMA>>)
         \o Quoted(Head(m)[1]) \o <<COLON>> \o Stringify(Head(m)[2])
         \o StringifyMembers(Tail(m), FALSE)
StringifyElements(m, first) ==
    IF m = <<>> THEN <<>>
    ELSE (IF first THEN <<>> ELSE <<COMMA>>)
         \o (IF Head(m).t = "undefined" THEN <<"n", "u", "l", "l">> ELSE Stringify(Head(m)))
         \o StringifyElements(Tail(m), FALSE)

\* Lines 194-196: the text callGemini returns for the parsed body `json`.
TextOrDump(text, json) == IF Nullish(text) THEN JStr(Stringify(json)) ELSE text
responseText(json) == TextOrDump(extractTextFromApiResponse(json), json)

(***************************************************************************)
(* callGemini and fetchRestaurantSuggestions (popup.js lines 181-256).     *)
(***************************************************************************)
SnippetCap == 8000
TruncationMarker == <<".", ".", ".", "[", "t", "r", "u", "n", "c", "a", "t", "e", "d", "]">>
RawKey == <<"_", "_", "r", "a", "w">>

\* What the endpoint can answer: a non-success status, or a body whose text
\* (callGemini's text) is one of these.
TextEmpty == <<>>
TextProse == <<"n", "o">>
TextJson == <<LBRACE, QUOTE, "a", QUOTE, COLON, "1", RBRACE>>
TextRawJson ==
    <<"x", LBRACE, QUOTE>> \o RawKey \o <<QUOTE, COLON, QUOTE, "a", QUOTE, RBRACE>>
ResponseTexts == {TextEmpty, TextProse, TextJson, TextRawJson}
StatusCodes == {429}

NoResp == [ok |-> FALSE, status |-> 0, text |-> <<>>]
Responses ==
    {[ok |-> TRUE, status |-> 200, text |-> t] : t \in ResponseTexts} \cup
    {[ok |-> FALSE, status |-> c, text |-> <<>>] : c \in StatusCodes}

\* extractFirstJson on each text the endpoint can answer, computed once.
ExtractTable == [t \in ResponseTexts |-> extractFirstJson(JsString(t))]
ExtractText(text) == ExtractTable[text]

NoError == [msg |-> "", status |-> 0]
HttpError(status) == [msg |-> "Gemini HTTP", status |-> status]

basePrompt(city, food) ==
    [kind |-> "base", city |-> city, food |-> food, raw |-> <<>>]
rawSnippet(text) ==
    IF Len(text) > SnippetCap
    THEN SubSeq(text, 1, SnippetCap) \o TruncationMarker
    ELSE text
reformatPrompt(text) ==
    [kind |-> "reformat", city |-> "", food |-> "", raw |-> rawSnippet(text)]
strictPrompt(city, food) ==
    [kind |-> "strict", city |-> city, food |-> food, raw |-> <<>>]

\* callGemini after the response arrived: it throws on !res.ok, else returns
\* the text.
callGemini(resp) ==
    IF ~resp.ok THEN [threw |-> TRUE, err |-> HttpError(resp.status), text |-> <<>>]
    ELSE [threw |-> FALSE, err |-> NoError, text |-> resp.text]

FetchThrow(err, a1) ==
    [do |-> "throw", err |-> err, val |-> JUndefined, prompt |-> basePrompt("", ""),
     attempt1 |-> a1]
FetchReturn(val, a1) ==
    [do |-> "return", err |-> NoError, val |-> val, prompt |-> basePrompt("", ""),
     attempt1 |-> a1]
FetchCall(prompt, a1) ==
    [do |-> "call", err |-> NoError, val |-> JUndefined, prompt |-> prompt,
     attempt1 |-> a1]

\* Mutant of fetchResume: a fourth attempt after the third failed extraction.
fetchResume_fourth(attempt, attempt1Text, resp, city, food) ==
    LET r == callGemini(resp)
        a1 == IF attempt = 1 THEN r.text ELSE attempt1Text
    IN  IF r.threw THEN FetchThrow(r.err, attempt1Text)
        ELSE IF ExtractText(r.text).found
            THEN FetchReturn(ExtractText(r.text).parsed, a1)
        ELSE IF attempt = 1 THEN FetchCall(reformatPrompt(r.text), a1)
        ELSE FetchCall(strictPrompt(city, food), a1)

\* Mutant of fetchResume: the first attempt's object is sent for reformatting
\* instead of being returned.
fetchResume_late(attempt, attempt1Text, resp, city, food) ==
    LET r == callGemini(resp)
        a1 == IF attempt = 1 THEN r.text ELSE attempt1Text
    IN  IF r.threw THEN FetchThrow(r.err, attempt1Text)
        ELSE IF attempt = 1 THEN FetchCall(reformatPrompt(r.text), a1)
        ELSE IF ExtractText(r.text).found
            THEN FetchReturn(ExtractText(r.text).parsed, a1)
        ELSE IF attempt = 2 THEN FetchCall(strictPrompt(city, food), a1)
        ELSE FetchReturn(JObj(<<<<RawKey, JStr(a1)>>>>), a1)

\* Mutant of fetchResume: the fallback carries the last attempt's text.
fetchResume_lasttext(attempt, attempt1Text, resp, city, food) ==
    LET r == callGemini(resp)
        a1 == IF attempt = 1 THEN r.text ELSE attempt1Text
    IN  IF r.threw THEN FetchThrow(r.err, attempt1Text)
        ELSE IF ExtractText(r.text).found
            THEN FetchReturn(ExtractText(r.text).parsed, a1)
        ELSE IF attempt = 1 THEN FetchCall(reformatPrompt(r.text), a1)
        ELSE IF attempt = 2 THEN FetchCall(strictPrompt(city, food), a1)
        ELSE FetchReturn(JObj(<<<<RawKey, JStr(r.text)>>>>), a1)

\* Mutant of fetchResume: a failed request counts as a failed extraction.
fetchResume_retry_http(attempt, attempt1Text, resp, city, food) ==
    LET r == callGemini(resp)
        a1 == IF attempt = 1 THEN r.text ELSE attempt1Text
    IN  IF r.threw /\ attempt = 3 THEN FetchThrow(r.err, attempt1Text)
        ELSE IF ~r.threw /\ ExtractText(r.text).found
            THEN FetchReturn(ExtractText(r.text).parsed, a1)
        ELSE IF attempt = 1 THEN FetchCall(reformatPrompt(r.text), a1)
        ELSE IF attempt = 2 THEN FetchCall(strictPrompt(city, food), a1)
        ELSE FetchReturn(JObj(<<<<RawKey, JStr(a1)>>>>), a1)

\* fetchRestaurantSuggestions from the point where the response to attempt
\* number `attempt` arrives (lines 224-229, 240-243, 249-255): it throws,
\* returns, or issues the next call.  attempt1Text is attempt1.text, kept
\* from the first response on.
fetchResume(attempt, attempt1Text, resp, city, food) ==
    LET r == callGemini(resp)
        a1 == IF attempt = 1 THEN r.text ELSE attempt1Text
    IN  IF r.threw THEN FetchThrow(r.err, attempt1Text)
        ELSE IF ExtractText(r.text).found
            THEN FetchReturn(ExtractText(r.text).parsed, a1)
        ELSE IF attempt = 1 THEN FetchCall(reformatPrompt(r.text), a1)
        ELSE IF attempt = 2 THEN FetchCall(strictPrompt(city, food), a1)
        ELSE FetchReturn(JObj(<<<<RawKey, JStr(a1)>>>>), a1)

\* if (result.__raw) renderRaw(result.__raw) else renderStructured(...)
\* (lines 302-306 and 337-341).
RenderResult(result, city, food) ==
    IF Truthy(GetMember(result.m, RawKey))
    THEN renderRaw(GetMember(result.m, RawKey))
    ELSE renderStructured(result, city, food)


(***************************************************************************)
(* The click handlers.  A handler runs from a click to its first await in  *)
(* one step and from one await to the next in one step; between the steps  *)
(* of one handler the steps of the others may run.  The input fields can   *)
(* be edited at any time, so reading a field yields any of its values.     *)
(***************************************************************************)
Tasks == 1..MaxTasks

CityValues == {"", "Pune"}
FoodValues == {"dosa"}

\* What the city field holds when a retry reads it: the retries of the runs
\* find the field filled in.
RetryCityValues == CityValues \ {""}

IdleTask ==
    [pc |-> "idle", kind |-> "none", key |-> <<>>, pass |-> <<>>,
     salt |-> <<>>, iv |-> <<>>, enc |-> NoEnc, city |-> "", food |-> "",
     attempt1 |-> <<>>, calls |-> 0, first |-> <<>>,
     cached |-> FALSE, superseded |-> FALSE]

\* calls (in a task) counts the calls of the run; first remembers the text of
\* the first response as it came from the endpoint; cached tells whether a
\* retry found sessionApiKey set when it was clicked; superseded tells that a
\* search was started after this search or retry.
NoOut ==
    [kind |-> "none", task |-> 0, attempt |-> 0, resp |-> NoResp,
     first |-> <<>>, did |-> "none", ret |-> JUndefined, err |-> NoError,
     calls |-> 0, enc |-> NoEnc, pass |-> <<>>, ok |-> FALSE, result |-> <<>>,
     alert |-> "", flow |-> "none", prompts |-> 0]

Alert(message) == [NoOut EXCEPT !.kind = "alert", !.alert = message]

\* The step of a handler (a search, a retry, a save) showed n prompt() dialogs.
Prompted(o, flow, n) == [o EXCEPT !.flow = flow, !.prompts = n]

\* A click starts its handler in the first free slot.
Free(f) == tasks[f].pc = "idle" /\ \A g \in Tasks : g < f => tasks[g].pc # "idle"

RequestsOf(f) == {r \in net : r.task = f}

Request(f, attempt, prompt, apiKey) ==
    [task |-> f, attempt |-> attempt, prompt |-> prompt, key |-> apiKey]

\* The searches and retries in flight when a new search starts are the
\* older flows from then on.
Supersede(ts) ==
    [g \in Tasks |->
        IF ts[g].kind \in {"search", "retry"}
        THEN [ts[g] EXCEPT !.superseded = TRUE] ELSE ts[g]]

\* The handler enters fetchRestaurantSuggestions: the first call goes out;
\* ts are the handlers as the step leaves the others.
StartFetch(ts, f, t, apiKey, city, food) ==
    /\ tasks' = [ts EXCEPT ![f] =
                    [t EXCEPT !.pc = "callGemini", !.key = apiKey, !.city = city,
                              !.food = food, !.calls = 1, !.enc = NoEnc,
                              !.pass = <<>>]]
    /\ net' = net \cup {Request(f, 1, basePrompt(city, food), apiKey)}

ErrorPrefix(kind) == IF kind = "retry" THEN "Retry failed: " ELSE "Error: "

\* searchBtn click (lines 314-322, 334-336): up to the first await.
SearchClick(f, city, food) ==
    /\ Free(f)
    /\ UNCHANGED <<sessionApiKey, storage, extractVars>>
    /\ IF city = "" \/ food = "" THEN
            /\ out' = Alert("Please enter both city and food item.")
            /\ UNCHANGED <<resultsDiv, tasks, net>>
       ELSE IF ~Falsy(sessionApiKey) THEN
            /\ resultsDiv' = setLoading("Querying Gemini for suggestions")
            /\ StartFetch(Supersede(tasks), f, [IdleTask EXCEPT !.kind = "search"],
                          sessionApiKey.s, city, food)
            /\ out' = NoOut
       ELSE
            /\ tasks' = [Supersede(tasks) EXCEPT ![f] =
                            [IdleTask EXCEPT !.pc = "getEncryptedKey", !.kind = "search",
                                             !.city = city, !.food = food]]
            /\ out' = NoOut
            /\ UNCHANGED <<resultsDiv, net>>

\* The search handler asking for the passphrase before it looks at what
\* storage returned.
SearchGotKey_prompt_first(f) ==
    /\ tasks[f].pc = "getEncryptedKey" /\ tasks[f].kind = "search"
    /\ UNCHANGED <<sessionApiKey, storage, resultsDiv, net, extractVars>>
    /\ LET enc == getEncryptedKey(storage) IN
       \E answer \in PromptAnswers :
            IF Falsy(answer) THEN
                /\ tasks' = [tasks EXCEPT ![f] = IdleTask]
                /\ out' = Prompted(Alert("Passphrase required to decrypt API key."),
                                   "search", 1)
            ELSE IF ~enc.present THEN
                /\ tasks' = [tasks EXCEPT ![f] = IdleTask]
                /\ out' = Prompted(Alert("No saved API key found. Please save your key first."),
                                   "search", 1)
            ELSE
                /\ tasks' = [tasks EXCEPT ![f] =
                                [@ EXCEPT !.pc = "decryptApiKey", !.enc = enc.obj,
                                          !.pass = answer.s]]
                /\ out' = Prompted(NoOut, "search", 1)

\* searchBtn handler after getEncryptedKey (lines 322-327): the stored value
\* is there, the passphrase is asked for, decryptApiKey is called.
SearchGotKey(f) ==
    /\ tasks[f].pc = "getEncryptedKey" /\ tasks[f].kind = "search"
    /\ UNCHANGED <<sessionApiKey, storage, resultsDiv, net, extractVars>>
    /\ LET enc == getEncryptedKey(storage) IN
       IF ~enc.present THEN
            /\ tasks' = [tasks EXCEPT ![f] = IdleTask]
            /\ out' = Prompted(Alert("No saved API key found. Please save your key first."),
                               "search", 0)
       ELSE \E answer \in PromptAnswers :
            IF Falsy(answer) THEN
                /\ tasks' = [tasks EXCEPT ![f] = IdleTask]
                /\ out' = Prompted(Alert("Passphrase required to decrypt API key."),
                                   "search", 1)
            ELSE
                /\ tasks' = [tasks EXCEPT ![f] =
                                [@ EXCEPT !.pc = "decryptApiKey", !.enc = enc.obj,
                                          !.pass = answer.s]]
                /\ out' = Prompted(NoOut, "search", 1)

\* searchBtn handler after decryptApiKey (lines 327-336).
SearchDecrypted(f) ==
    /\ tasks[f].pc = "decryptApiKey" /\ tasks[f].kind = "search"
    /\ UNCHANGED <<storage, extractVars>>
    /\ LET t == tasks[f]
           r == Decrypted(t.enc, t.pass)
           o == [NoOut EXCEPT !.kind = "decrypt", !.task = f, !.enc = t.enc,
                              !.pass = t.pass, !.ok = r.ok, !.result = r.s]
       IN  IF r.ok THEN
                /\ sessionApiKey' = Str(r.s)
                /\ resultsDiv' = setLoading("Querying Gemini for suggestions")
                /\ StartFetch(tasks, f, t, r.s, t.city, t.food)
                /\ out' = [o EXCEPT !.did = "call"]
           ELSE
                /\ tasks' = [tasks EXCEPT ![f] = IdleTask]
                /\ out' = [o EXCEPT !.alert = "Failed to decrypt API key: "]
                /\ UNCHANGED <<sessionApiKey, resultsDiv, net>>

\* retryBtn click (lines 288-292): the button exists in the raw view only.
RetryClick(f) ==
    /\ Free(f)
    /\ RetryButtonShown
    /\ resultsDiv' = setLoading("Retrying with strict JSON prompt")
    /\ tasks' = [tasks EXCEPT ![f] =
                    [IdleTask EXCEPT !.pc = "getEncryptedKey", !.kind = "retry",
                                     !.cached = ~Falsy(sessionApiKey)]]
    /\ out' = NoOut
    /\ UNCHANGED <<sessionApiKey, storage, net, extractVars>>

\* retryBtn handler after getEncryptedKey (lines 292-297, 307-309).
RetryGotKey(f) ==
    /\ tasks[f].pc = "getEncryptedKey" /\ tasks[f].kind = "retry"
    /\ UNCHANGED <<sessionApiKey, storage, net, extractVars>>
    /\ LET enc == getEncryptedKey(storage) IN
       IF ~enc.present THEN
            /\ tasks' = [tasks EXCEPT ![f] = IdleTask]
            /\ resultsDiv' = ErrorView("Retry failed: ",
                                 [NoError EXCEPT !.msg = "No stored encrypted API key found."])
            /\ out' = Prompted(NoOut, "retry", 0)
       ELSE \E answer \in PromptAnswers :
            IF Falsy(answer) THEN
                /\ tasks' = [tasks EXCEPT ![f] = IdleTask]
                /\ resultsDiv' = ErrorView("Retry failed: ",
                                     [NoError EXCEPT !.msg = "Passphrase required."])
                /\ out' = Prompted(NoOut, "retry", 1)
            ELSE
                /\ tasks' = [tasks EXCEPT ![f] =
                                [@ EXCEPT !.pc = "decryptApiKey", !.enc = enc.obj,
                                          !.pass = answer.s]]
                /\ out' = Prompted(NoOut, "retry", 1)
                /\ UNCHANGED resultsDiv

\* retryBtn handler after decryptApiKey (lines 297-301, 307-309): the fields
\* are read here.
RetryDecrypted(f, city, food) ==
    /\ tasks[f].pc = "decryptApiKey" /\ tasks[f].kind = "retry"
    /\ UNCHANGED <<storage, extractVars>>
    /\ LET t == tasks[f]
           r == Decrypted(t.enc, t.pass)
           o == [NoOut EXCEPT !.kind = "decrypt", !.task = f, !.enc = t.enc,
                              !.pass = t.pass, !.ok = r.ok, !.result = r.s]
       IN  IF r.ok THEN
                /\ sessionApiKey' = Str(r.s)
                /\ StartFetch(tasks, f, t, r.s, city, food)
                /\ out' = [o EXCEPT !.did = "call"]
                /\ UNCHANGED resultsDiv
           ELSE
                /\ tasks' = [tasks EXCEPT ![f] = IdleTask]
                /\ resultsDiv' = ErrorView("Retry failed: ",
                                     [NoError EXCEPT !.msg = "OperationError"])
                /\ out' = o
                /\ UNCHANGED <<sessionApiKey, net>>

\* The handler of f after fetchRestaurantSuggestions took `step` on the
\* response to req: the next call is outstanding, or the function is left
\* and the handler renders the result or reports the error (lines 301-309
\* and 336-344).
Resume(f, req, resp, step) ==
    LET t == tasks[f]
        first == IF req.attempt = 1 THEN resp.text ELSE t.first
        o == [NoOut EXCEPT !.kind = "response", !.task = f, !.attempt = req.attempt,
                           !.resp = resp, !.first = first,
                           !.did = step.do, !.ret = step.val, !.err = step.err]
    IN  IF step.do = "call" THEN
            /\ tasks' = [tasks EXCEPT ![f] =
                            [t EXCEPT !.attempt1 = step.attempt1, !.calls = @ + 1,
                                      !.first = first]]
            /\ net' = (net \ {req}) \cup
                        {Request(f, req.attempt + 1, step.prompt, t.key)}
            /\ out' = [o EXCEPT !.calls = t.calls + 1]
            /\ UNCHANGED resultsDiv
        ELSE
            /\ tasks' = [tasks EXCEPT ![f] = IdleTask]
            /\ net' = net \ {req}
            /\ out' = [o EXCEPT !.calls = t.calls]
            /\ resultsDiv' =
                    IF step.do = "return" THEN RenderResult(step.val, t.city, t.food)
                    ELSE ErrorView(ErrorPrefix(t.kind), step.err)

\* The endpoint answers the outstanding call of handler f, and the handler
\* runs on inside fetchRestaurantSuggestions up to the next call, or to the
\* end of the handler.
Respond(f, resp) ==
    /\ tasks[f].pc = "callGemini"
    /\ \E req \in RequestsOf(f) :
        Resume(f, req, resp,
               fetchResume(req.attempt, tasks[f].attempt1, resp,
                           tasks[f].city, tasks[f].food))
    /\ UNCHANGED <<sessionApiKey, storage, extractVars>>

\* saveKeyBtn click (lines 92-103): the field is read, the passphrase asked
\* for twice, salt and nonce drawn, the encryption started.
SaveClick(f) ==
    /\ Free(f)
    /\ UNCHANGED <<sessionApiKey, storage, resultsDiv, net, extractVars>>
    /\ \E value \in ApiKeyInputs :
        LET key == Trim(value) IN
        IF key = <<>> THEN
            /\ out' = Prompted(Alert("Please enter your Gemini API key before saving."),
                               "save", 0)
            /\ UNCHANGED tasks
        ELSE \E pass1 \in PromptAnswers :
            IF Falsy(pass1) THEN
                /\ out' = Prompted(Alert("Passphrase is required to encrypt the API key."),
                                   "save", 1)
                /\ UNCHANGED tasks
            ELSE \E pass2 \in PromptAnswers :
                IF pass1 # pass2 THEN
                    /\ out' = Prompted(Alert("Passphrases do not match. Aborting save."),
                                       "save", 2)
                    /\ UNCHANGED tasks
                ELSE \E salt \in Salts, iv \in Nonces :
                    /\ tasks' = [tasks EXCEPT ![f] =
                                    [IdleTask EXCEPT !.pc = "encryptApiKey",
                                                     !.kind = "save", !.key = key,
                                                     !.pass = pass1.s, !.salt = salt,
                                                     !.iv = iv]]
                    /\ out' = Prompted(NoOut, "save", 2)

\* Mutant of SaveEncrypted: the key goes to storage encoded, not encrypted.
SaveEncrypted_plain(f) ==
    /\ tasks[f].pc = "encryptApiKey"
    /\ LET t == tasks[f] IN
       tasks' = [tasks EXCEPT ![f] =
                    [t EXCEPT !.pc = "storeEncryptedKey",
                              !.enc = [Encrypted(t.key, t.pass, t.salt, t.iv)
                                          EXCEPT !.ciphertext = base64Encode(TextEncode(t.key))],
                              !.pass = <<>>, !.salt = <<>>, !.iv = <<>>]]
    /\ out' = NoOut
    /\ UNCHANGED <<sessionApiKey, storage, resultsDiv, net, extractVars>>

\* saveKeyBtn handler after encryptApiKey (lines 103-104, 108-111): the
\* object goes to storeEncryptedKey, or the promise was rejected and the
\* catch reports it.
SaveEncrypted(f) ==
    /\ tasks[f].pc = "encryptApiKey"
    /\ \E encrypted \in BOOLEAN :
        LET t == tasks[f] IN
        IF encrypted THEN
            /\ tasks' = [tasks EXCEPT ![f] =
                            [t EXCEPT !.pc = "storeEncryptedKey",
                                      !.enc = Encrypted(t.key, t.pass, t.salt, t.iv),
                                      !.pass = <<>>, !.salt = <<>>, !.iv = <<>>]]
            /\ out' = NoOut
        ELSE
            /\ tasks' = [tasks EXCEPT ![f] = IdleTask]
            /\ out' = Prompted(Alert("Failed to encrypt/save the key: "), "save", 0)
    /\ UNCHANGED <<sessionApiKey, storage, resultsDiv, net, extractVars>>

\* saveKeyBtn handler after storeEncryptedKey (lines 104-107).  The promise
\* of line 82 is resolved from the callback of chrome.storage.local.set
\* whether the write succeeded or not (chrome.runtime.lastError is not
\* looked at), so the handler goes on the same way when nothing was written.
SaveStored(f) ==
    /\ tasks[f].pc = "storeEncryptedKey"
    /\ \E written \in BOOLEAN :
        /\ storage' = IF written THEN storeEncryptedKey(tasks[f].enc) ELSE storage
        /\ out' = [Alert("API key encrypted and saved locally. Remember your passphrase!")
                      EXCEPT !.kind = "saved", !.task = f, !.ok = written,
                             !.result = tasks[f].key]
    /\ sessionApiKey' = Str(tasks[f].key)
    /\ tasks' = [tasks EXCEPT ![f] = IdleTask]
    /\ UNCHANGED <<resultsDiv, net, extractVars>>

\* clearKeyBtn click (lines 114-115).
ClearKeyClick(f) ==
    /\ Free(f)
    /\ tasks' = [tasks EXCEPT ![f] =
                    [IdleTask EXCEPT !.pc = "clearStoredKey", !.kind = "clear"]]
    /\ out' = NoOut
    /\ UNCHANGED <<sessionApiKey, storage, resultsDiv, net, extractVars>>

\* clearKeyBtn handler after clearStoredKey (lines 115-117).
ClearKeyDone(f) ==
    /\ tasks[f].pc = "clearStoredKey"
    /\ storage' = clearStoredKey
    /\ sessionApiKey' = Null
    /\ tasks' = [tasks EXCEPT ![f] = IdleTask]
    /\ out' = [Alert("Stored API key cleared.") EXCEPT !.kind = "cleared", !.task = f]
    /\ UNCHANGED <<resultsDiv, net, extractVars>>

\* clearBtn click (line 348).
ClearResults ==
    /\ resultsDiv # NoView
    /\ resultsDiv' = NoView
    /\ out' = NoOut
    /\ UNCHANGED <<sessionApiKey, storage, tasks, net, extractVars>>

\* The popup as opened: nothing cached, nothing shown, and in storage
\* whatever an earlier session left there.
StoredBefore ==
    {Absent} \cup
    {storeEncryptedKey(Encrypted(k, q, salt, iv)) :
        k \in ApiKeys, q \in Passphrases, salt \in Salts, iv \in Nonces}

Opened ==
    /\ sessionApiKey = Null
    /\ resultsDiv = NoView
    /\ tasks = [f \in Tasks |-> IdleTask]
    /\ net = {}
    /\ out = NoOut


(***************************************************************************)
(* Inputs of the pure-function runs.  A generated object carries its       *)
(* source text (src) beside the value it denotes (val), built from the     *)
(* same items: a plain character stands for itself, an escape \" or \\     *)
(* for the character after the backslash.                                  *)
(***************************************************************************)
PlainItems == {[src |-> <<c>>, val |-> c, esc |-> FALSE] : c \in {"a", LBRACE, RBRACE}}
EscapedItems == {[src |-> <<BACKSLASH, c>>, val |-> c, esc |-> TRUE] : c \in {QUOTE, BACKSLASH}}

ItemSrc(items) == Concat([i \in DOMAIN items |-> items[i].src])
ItemVal(items) == [i \in DOMAIN items |-> items[i].val]
HasEscape(items) == \E i \in DOMAIN items : items[i].esc

\* An escaped quote with a brace after it in the same string.
EscapedQuoteThenBrace(items) ==
    \E i, j \in DOMAIN items :
        /\ i < j
        /\ items[i].src = <<BACKSLASH, QUOTE>>
        /\ items[j].val \in {LBRACE, RBRACE}

GenStrings ==
    {[src |-> <<QUOTE>> \o ItemSrc(items) \o <<QUOTE>>,
      val |-> JStr(ItemVal(items)),
      esc |-> HasEscape(items),
      eqb |-> EscapedQuoteThenBrace(items)] :
        items \in SeqsUpTo(PlainItems \cup EscapedItems, MaxStrItems)}

GenValues ==
    GenStrings \cup
    {[src |-> <<"1">>, val |-> JNum(1), esc |-> FALSE, eqb |-> FALSE],
     [src |-> <<"2", "0">>, val |-> JNum(20), esc |-> FALSE, eqb |-> FALSE],
     [src |-> <<LBRACE, RBRACE>>, val |-> JObj(<<>>), esc |-> FALSE, eqb |-> FALSE]}

KeyA == <<QUOTE, "a", QUOTE>>

\* {} and {"a":v}, the latter with and without a blank after the colon, and
\* one level of nesting.
GenFlatObjects ==
    {[src |-> <<LBRACE>> \o KeyA \o <<COLON>> \o sp \o v.src \o <<RBRACE>>,
      val |-> JObj(<<<<(<<"a">>), v.val>>>>),
      esc |-> v.esc, eqb |-> v.eqb] :
        v \in GenValues, sp \in {<<>>, <<SPACE>>}}

GenObjects ==
    GenFlatObjects \cup
    {[src |-> <<LBRACE, RBRACE>>, val |-> JObj(<<>>), esc |-> FALSE, eqb |-> FALSE]} \cup
    {[src |-> <<LBRACE>> \o KeyA \o <<COLON>> \o o.src \o <<COMMA>> \o KeyA
                \o <<COLON, "1", RBRACE>>,
      val |-> JObj(<<<<(<<"a">>), JNum(1)>>>>),
      esc |-> o.esc, eqb |-> o.eqb] :
        o \in {g \in GenFlatObjects : Len(g.src) <= 8}}

ScanAlphabet == {LBRACE, RBRACE, QUOTE, BACKSLASH, COLON, "1", "a"}
NoiseAlphabet == {LBRACE, RBRACE, QUOTE, BACKSLASH, "a"}

ArbitraryTexts == SeqsUpTo(ScanAlphabet, MaxTextLen)
Prefixes == SeqsUpTo(NoiseAlphabet \ {LBRACE}, MaxNoiseLen)
Suffixes == SeqsUpTo(NoiseAlphabet, MaxNoiseLen)
NonStrings == {JsOther(t) : t \in {"undefined", "null", "number", "object"}}

\* Balanced spans that are not JSON and that no continuation turns into JSON.
BrokenSpans ==
    {<<LBRACE, "a", RBRACE>>, <<LBRACE, LBRACE, RBRACE, RBRACE>>,
     <<LBRACE, COLON, "1", RBRACE>>}

\* {"a":"\"}{\""}: the scan is at depth zero at the first '}', inside the
\* string value, and again at the closing '}' of the object.
ReclosedObjects ==
    {[src |-> <<LBRACE>> \o KeyA \o <<COLON, QUOTE, BACKSLASH, QUOTE, RBRACE, LBRACE,
                                      BACKSLASH, QUOTE, QUOTE, RBRACE>>,
      val |-> JObj(<<<<(<<"a">>), JStr(<<QUOTE, RBRACE, LBRACE, QUOTE>>)>>>>),
      esc |-> TRUE, eqb |-> TRUE]}

NoFrame ==
    [kind |-> "none", pre |-> <<>>, obj |-> <<>>, val |-> JUndefined,
     post |-> <<>>, esc |-> FALSE, eqb |-> FALSE]

Pending == [done |-> FALSE, r |-> ExtractNull(0)]
NotProbed == [done |-> FALSE, text |-> JUndefined]

InitExtract ==
    /\ Opened
    /\ storage = Absent
    /\ extracted = Pending
    /\ envelope = JUndefined
    /\ probed = NotProbed
    /\ \/ \E t \in ArbitraryTexts :
            /\ input = JsString(t)
            /\ frame = [NoFrame EXCEPT !.kind = "arbitrary"]
       \/ \E v \in NonStrings :
            /\ input = v
            /\ frame = [NoFrame EXCEPT !.kind = "nonstring"]
       \/ \E p \in Prefixes, o \in GenObjects, q \in Suffixes :
            /\ input = JsString(p \o o.src \o q)
            /\ frame = [kind |-> "framed", pre |-> p, obj |-> o.src, val |-> o.val,
                        post |-> q, esc |-> o.esc, eqb |-> o.eqb]
       \/ \E p \in Prefixes, b \in BrokenSpans, sep \in {<<>>, <<SPACE>>}, o \in GenObjects :
            /\ input = JsString(p \o b \o sep \o o.src)
            /\ frame = [kind |-> "broken", pre |-> p \o b \o sep, obj |-> o.src,
                        val |-> o.val, post |-> <<>>, esc |-> o.esc, eqb |-> o.eqb]
       \/ \E p \in Prefixes, o \in ReclosedObjects :
            /\ input = JsString(p \o o.src)
            /\ frame = [kind |-> "reclosed", pre |-> p, obj |-> o.src, val |-> o.val,
                        post |-> <<>>, esc |-> o.esc, eqb |-> o.eqb]

\* One call of extractFirstJson on the input.
Extract ==
    /\ ~extracted.done
    /\ extracted' = [done |-> TRUE, r |-> extractFirstJson(input)]
    /\ UNCHANGED <<input, frame, envelope, probed, appVars>>

NextExtract == Extract

SpecExtract == InitExtract /\ [][NextExtract]_vars

(***************************************************************************)
(* Response bodies for the runs of callGemini's text step.  Each place a   *)
(* text can sit in holds its own letter, so the returned text tells which  *)
(* path produced it; a member that is absent is left out of its object.    *)
(***************************************************************************)
Obj(pairs) == JObj(SelectSeq(pairs, LAMBDA p : p[2].t # "undefined"))
TextHolder(v) == Obj(<<<<KeyText, v>>>>)

PartsVariants(letter) ==
    {JArr(<<TextHolder(JStr(<<letter>>))>>),    \* parts[0].text is a string
     JArr(<<TextHolder(JNum(1))>>),             \* parts[0].text is not a string
     JArr(<<JNull>>),                           \* parts[0] is null
     JArr(<<>>)}                                \* parts is empty

ContentVariants ==
    {JUndefined, JArr(<<JNull>>)}
    \cup {Obj(<<<<KeyParts, p>>>>) : p \in PartsVariants("a")}
    \cup {JArr(<<Obj(<<<<KeyParts, p>>>>)>>) : p \in PartsVariants("b")}

OutputVariants(letter) ==
    {JUndefined, JArr(<<JNull>>),
     JArr(<<Obj(<<<<KeyContent, JArr(<<TextHolder(JStr(<<letter>>))>>)>>>>)>>),
     JArr(<<Obj(<<<<KeyContent, JArr(<<TextHolder(JStr(<<>>))>>)>>>>)>>)}

TextVariants == {JUndefined, JStr(<<"d">>), JStr(<<>>), JNum(1)}

Candidates ==
    {Obj(<<<<KeyContent, c>>, <<KeyOutput, o>>, <<KeyText, t>>>>) :
        c \in ContentVariants, o \in OutputVariants("c"), t \in TextVariants}

CandidateLists == {JUndefined, JArr(<<>>), JArr(<<JNull>>)} \cup {JArr(<<c>>) : c \in Candidates}

Envelopes ==
    {JNull} \cup
    {Obj(<<<<KeyCandidates, cs>>, <<KeyOutput, o>>>>) :
        cs \in CandidateLists, o \in OutputVariants("e")}

InitEnvelope ==
    /\ Opened
    /\ storage = Absent
    /\ input = JsOther("undefined")
    /\ frame = NoFrame
    /\ extracted = Pending
    /\ envelope \in Envelopes
    /\ probed = NotProbed

\* callGemini's last two statements on the parsed body.
Probe ==
    /\ ~probed.done
    /\ probed' = [done |-> TRUE, text |-> responseText(envelope)]
    /\ UNCHANGED <<input, frame, extracted, envelope, appVars>>

NextEnvelope == Probe

SpecEnvelope == InitEnvelope /\ [][NextEnvelope]_vars

(***************************************************************************)
(* The popup.                                                              *)
(***************************************************************************)
Init ==
    /\ Opened
    /\ storage \in StoredBefore
    /\ input = JsOther("undefined")
    /\ frame = NoFrame
    /\ extracted = Pending
    /\ envelope = JUndefined
    /\ probed = NotProbed

Next ==
    \/ \E f \in Tasks, city \in CityValues, food \in FoodValues : SearchClick(f, city, food)
    \/ \E f \in Tasks : SearchGotKey(f)
    \/ \E f \in Tasks : SearchDecrypted(f)
    \/ \E f \in Tasks : RetryClick(f)
    \/ \E f \in Tasks : RetryGotKey(f)
    \/ \E f \in Tasks, city \in RetryCityValues, food \in FoodValues : RetryDecrypted(f, city, food)
    \/ \E f \in Tasks, resp \in Responses : Respond(f, resp)
    \/ \E f \in Tasks : SaveClick(f)
    \/ \E f \in Tasks : SaveEncrypted(f)
    \/ \E f \in Tasks : SaveStored(f)
    \/ \E f \in Tasks : ClearKeyClick(f)
    \/ \E f \in Tasks : ClearKeyDone(f)
    \/ ClearResults

Spec == Init /\ [][Next]_vars

(***************************************************************************)
(* Claims about extractFirstJson, checked under SpecExtract.               *)
(***************************************************************************)
Res == extracted.r

\* C6: when the first '{' opens a valid object one of whose string values
\* holds an escaped quote followed by a brace, the escaped quote does not end
\* the string and the function returns that whole object, parsed.
C6_EscapedQuoteHonoured ==
    (extracted.done /\ frame.kind = "framed" /\ frame.eqb) =>
        /\ Res.found
        /\ Res.text = frame.obj
        /\ Res.parsed = frame.val

\* C7: for a text P + J + T, P without '{', J a valid object whose strings may
\* hold braces but no backslash, T arbitrary, the result's raw slice is J and
\* its parsed value is the value J denotes, whatever P and T are.
C7_FramedObjectExtracted ==
    (extracted.done /\ frame.kind = "framed" /\ ~frame.esc) =>
        /\ Res.found
        /\ Res.text = frame.obj
        /\ Res.parsed = frame.val

HasBraceInString(src) ==
    \E i \in DOMAIN src : i > 1 /\ i < Len(src) /\ src[i] \in {LBRACE, RBRACE}
                            /\ src[i - 1] \in {QUOTE, "a"} /\ src[i + 1] \in {QUOTE, "a"}

C7_Witness ==
    /\ extracted.done /\ frame.kind = "framed" /\ ~frame.esc
    /\ frame.pre # <<>> /\ frame.post # <<>>
    /\ HasBraceInString(frame.obj)
    /\ Res.found /\ Res.text = frame.obj

\* No slice of the text from its first '{' to a later position parses.
NoSliceParses(text) ==
    LET start == IndexFrom(text, LBRACE, 1) IN
    \/ start = 0
    \/ \A j \in start..Len(text) : ~JsonParse(SubSeq(text, start, j)).ok

\* C8: for every input the function returns without raising after at most
\* one pass over the text, and it returns null for a non-string, for a text
\* without '{' and for a text none of whose slices from the first '{' parses.
C8_ExtractTotal ==
    extracted.done =>
        /\ ~Res.raised
        /\ Res.iters <= Len(input.chars)
        /\ (input.type # "string" => ~Res.found)
        /\ (input.type = "string" /\ NoSliceParses(input.chars) => ~Res.found)

\* An unbalanced text with more '}' than '{' and a candidate that failed to
\* parse, scanned to its end.
C8_Witness ==
    /\ extracted.done /\ input.type = "string"
    /\ ~Res.found /\ ~Res.raised
    /\ Res.iters = Len(input.chars) /\ Res.iters >= 3
    /\ input.chars[1] = LBRACE /\ input.chars[Len(input.chars)] = RBRACE
    /\ Cardinality({i \in DOMAIN input.chars : input.chars[i] = RBRACE}) >
           Cardinality({i \in DOMAIN input.chars : input.chars[i] = LBRACE})

(***************************************************************************)
(* Claims about the pipeline and the vault, checked under Spec.            *)
(***************************************************************************)
Responded == out.kind = "response"
ResponseParses == out.resp.ok /\ ExtractText(out.resp.text).found
AllThreeFailed ==
    Responded /\ out.attempt = 3 /\ out.resp.ok /\ ~ExtractText(out.resp.text).found

\* C1: a run of fetchRestaurantSuggestions issues between one and three
\* calls, never has two of them outstanding, and issues call k+1 only on
\* receiving a response to call k whose text failed extraction.
C1_CallsSequential ==
    /\ \A f \in Tasks :
        /\ Cardinality(RequestsOf(f)) <= 1
        /\ (tasks[f].pc = "callGemini") <=> (RequestsOf(f) # {})
        /\ \A r \in RequestsOf(f) : r.attempt = tasks[f].calls /\ r.attempt \in 1..3
    /\ Responded =>
        /\ out.calls \in 1..3
        /\ IF out.did = "call"
           THEN /\ out.resp.ok /\ ~ExtractText(out.resp.text).found
                /\ out.calls = out.attempt + 1
                /\ RequestsOf(out.task) =
                       {r \in net : r.task = out.task /\ r.attempt = out.calls}
           ELSE out.calls = out.attempt /\ RequestsOf(out.task) = {}

\* The third call of a run is outstanding, issued on the second failure.
C1_Witness ==
    /\ Responded /\ out.did = "call" /\ out.attempt = 2 /\ out.calls = 3
    /\ \E r \in net : r.task = out.task /\ r.attempt = 3 /\ r.prompt.kind = "strict"

\* C2: when the text of attempt k parses, the run returns exactly the parsed
\* object and issues no further call; a parseable first response makes the
\* run end after one call.
C2_ReturnsFirstParse ==
    (Responded /\ ResponseParses) =>
        /\ out.did = "return"
        /\ out.ret = ExtractText(out.resp.text).parsed
        /\ out.calls = out.attempt
        /\ RequestsOf(out.task) = {}
        /\ tasks[out.task].pc = "idle"

C2_Witness ==
    /\ Responded /\ out.attempt = 1 /\ out.resp.text = TextJson
    /\ out.did = "return" /\ out.calls = 1
    /\ out.ret = JObj(<<<<(<<"a">>), JNum(1)>>>>)
    /\ net = {}

C4_TransportErrorAborts ==
    (Responded /\ ~out.resp.ok) =>
        /\ out.did = "throw"
        /\ out.err.status = out.resp.status
        /\ out.ret = JUndefined
        /\ out.calls = out.attempt
        /\ RequestsOf(out.task) = {}
        /\ tasks[out.task].pc = "idle"
        /\ resultsDiv.view = "error" /\ resultsDiv.status = out.resp.status

C4_Witness ==
    /\ Responded /\ ~out.resp.ok /\ out.attempt = 2 /\ out.resp.status = 429
    /\ resultsDiv.view = "error" /\ resultsDiv.status = 429
    /\ net = {}

\* C5: when all three attempts failed extraction without a transport error,
\* the results area ends in the raw-fallback view showing the first text,
\* whatever that text is, the empty string included.
C5_ExhaustedShowsRawView ==
    AllThreeFailed =>
        /\ resultsDiv.view = "raw"
        /\ resultsDiv.data = JStr(out.first)

\* The runs' encryptions of which e is one, as <<key, passphrase>> pairs.
MadeFrom(e) ==
    {<<k, q>> \in ApiKeys \X Passphrases :
        \E salt \in Salts, iv \in Nonces : e = Encrypted(k, q, salt, iv)}

WrongPassphrase(e, q) == MadeFrom(e) # {} /\ \A kq \in MadeFrom(e) : kq[2] # q

\* C10: decrypting with a passphrase other than the one used to encrypt
\* fails, and the handler that hit the failure ends there: it issues no
\* call, caches no credential and leaves the stored one as it was.
C10_WrongPassphraseFails ==
    [][\A f \in Tasks :
        (/\ tasks[f].pc = "decryptApiKey"
         /\ tasks'[f].pc # "decryptApiKey"
         /\ WrongPassphrase(tasks[f].enc, tasks[f].pass)) =>
            /\ out'.kind = "decrypt" /\ ~out'.ok
            /\ tasks'[f] = IdleTask
            /\ net' = net
            /\ sessionApiKey' = sessionApiKey
            /\ storage' = storage]_vars

C10_Witness ==
    /\ out.kind = "decrypt" /\ ~out.ok
    /\ WrongPassphrase(out.enc, out.pass)
    /\ out.alert = "Failed to decrypt API key: "
    /\ sessionApiKey = Null /\ net = {}
    /\ storage.present /\ storage.obj = out.enc

(***************************************************************************)
(* Claims about what the handlers leave in storage and in the session.     *)
(***************************************************************************)
\* The UTF-8 bytes of the keys and passphrases of the runs.
Secrets == {TextEncode(x) : x \in ApiKeys \cup Passphrases}

\* A field of e spells, decoded, a key or a passphrase in the clear.
HoldsSecret(e) ==
    \/ base64Decode(e.ciphertext) \in Secrets
    \/ base64Decode(e.iv) \in Secrets
    \/ base64Decode(e.salt) \in Secrets

SealedObjects == {e \in EncryptedObjects : ~HoldsSecret(e)}

\* C11: storage holds nothing, or an object {ciphertext, iv, salt} that
\* encryptApiKey produced; no field of it is a key or a passphrase in the
\* clear.
C11_StorageHoldsOnlyEncrypted ==
    /\ storage.present => storage.obj \in SealedObjects
    /\ ~storage.present => storage = Absent

\* A save has just written its object over an object an earlier save left.
C11_Witness ==
    /\ out.kind = "saved"
    /\ storage.present /\ storage.obj \in SealedObjects
    /\ <<(<<233, BOM, 66>>), PassQ>> \in MadeFrom(storage.obj)
    /\ sessionApiKey = Str(<<233, BOM, 66>>)

\* C12: a retry clicked while a session credential is cached goes on to the
\* endpoint call without showing a passphrase prompt.
C12_RetryWithCachedKeySkipsPrompt ==
    [][\A f \in Tasks :
        (/\ tasks[f].kind = "retry" /\ tasks[f].cached
         /\ tasks[f].pc = "getEncryptedKey"
         /\ tasks'[f].pc # "getEncryptedKey") =>
            /\ out'.prompts = 0
            /\ tasks'[f].pc = "callGemini"]_vars

\* C13: once a clear has left storage empty and the session credential
\* null, the session credential stays null until a save sets it, whatever
\* the handlers suspended at an await do when they resume.
C13_ClearedStaysCleared ==
    [][(storage = Absent /\ sessionApiKey = Null) =>
            (out'.kind = "saved" \/ sessionApiKey' = Null)]_vars

\* C14: a search or retry after which a newer search was started does not
\* write the results area when it ends, with a result or with an error.
C14_StaleResultDiscarded ==
    [][\A f \in Tasks :
        (tasks[f].superseded /\ tasks'[f].pc = "idle") =>
            resultsDiv' = resultsDiv]_vars

(***************************************************************************)
(* Claims about the text callGemini makes of a response body, checked      *)
(* under SpecEnvelope.                                                     *)
(***************************************************************************)
\* Reading a path of member names off a value, a missing or null step giving
\* undefined; the empty name stands for the index 0.
RECURSIVE Walk(_, _)
Walk(v, path) ==
    IF path = <<>> THEN v
    ELSE IF Nullish(v) THEN JUndefined
    ELSE Walk(IF Head(path) = <<>> THEN First(v) ELSE Prop(v, Head(path)), Tail(path))

\* The known paths in priority order; `any` tells whether the path matches
\* on any string or only on a non-empty text.
KnownPaths ==
    <<[path |-> <<KeyCandidates, <<>>, KeyContent, KeyParts, <<>>, KeyText>>, any |-> TRUE],
      [path |-> <<KeyCandidates, <<>>, KeyContent, <<>>, KeyParts, <<>>, KeyText>>, any |-> TRUE],
      [path |-> <<KeyCandidates, <<>>, KeyOutput, <<>>, KeyContent, <<>>, KeyText>>, any |-> FALSE],
      [path |-> <<KeyCandidates, <<>>, KeyText>>, any |-> TRUE],
      [path |-> <<KeyOutput, <<>>, KeyContent, <<>>, KeyText>>, any |-> FALSE]>>

PathMatches(json, k) ==
    /\ Walk(json, KnownPaths[k].path).t = "string"
    /\ KnownPaths[k].any \/ Walk(json, KnownPaths[k].path).s # <<>>

MatchingPaths(json) == {k \in DOMAIN KnownPaths : PathMatches(json, k)}

FirstMatch(json) == CHOOSE k \in MatchingPaths(json) : \A j \in MatchingPaths(json) : k <= j

\* C15: for every response body the text returned is the text at the first
\* known path, in priority order, that holds one, and the stringified body
\* only if no known path holds a text.
C15_FirstMatchingPathOrDump ==
    probed.done =>
        IF MatchingPaths(envelope) = {}
        THEN probed.text = JStr(Stringify(envelope))
        ELSE probed.text = Walk(envelope, KnownPaths[FirstMatch(envelope)].path)

(***************************************************************************)
(* Claims about how a search gets its credential.                          *)
(***************************************************************************)
NoCredentialError ==
    Prompted(Alert("No saved API key found. Please save your key first."), "search", 0)

\* The search handler in slot f reads storage in this step.
SearchReadsStorage(f) ==
    /\ tasks[f].kind = "search" /\ tasks[f].pc = "getEncryptedKey"
    /\ tasks'[f].pc # "getEncryptedKey"

\* A search starts in slot f in this step and gets past the field check.
SearchStarts(f) ==
    /\ tasks[f].pc = "idle" /\ tasks'[f].pc # "idle" /\ tasks'[f].kind = "search"

\* C16: a search that finds nothing stored ends with the no-credential
\* alert, with no prompt, no call, and the results area, storage and session
\* credential as they were; a search that finds a session credential cached
\* sends its first call with that credential in the same step, without
\* reading storage and without a prompt.
C16_SearchCredential ==
    [][\A f \in Tasks :
        /\ (SearchReadsStorage(f) /\ ~storage.present) =>
                /\ out' = NoCredentialError
                /\ tasks'[f] = IdleTask
                /\ net' = net /\ resultsDiv' = resultsDiv
                /\ storage' = storage /\ sessionApiKey' = sessionApiKey
        /\ (SearchStarts(f) /\ ~Falsy(sessionApiKey)) =>
                /\ tasks'[f].pc = "callGemini"
                /\ out'.prompts = 0
                /\ net' = net \cup {Request(f, 1, basePrompt(tasks'[f].city, tasks'[f].food),
                                            sessionApiKey.s)}
                /\ storage' = storage /\ sessionApiKey' = sessionApiKey]_vars

\* A search found nothing stored and no session credential, and said so.
C16_Witness ==
    /\ out = NoCredentialError
    /\ storage = Absent /\ sessionApiKey = Null
    /\ net = {} /\ resultsDiv = NoView

(***************************************************************************)
(* Claims about where extractFirstJson's slice starts, checked under       *)
(* SpecExtract.                                                            *)
(***************************************************************************)
FirstBrace(text) ==
    CHOOSE i \in DOMAIN text : text[i] = LBRACE /\ \A j \in 1..(i - 1) : text[j] # LBRACE

\* C17: a slice the function returns starts at the first '{' of the text and
\* ends with a '}', also when an earlier candidate from that '{' failed to
\* parse; a text whose first balanced span is not JSON yields null although
\* a valid object follows the span.
C17_StartNeverMoves ==
    extracted.done =>
        /\ Res.found =>
            /\ \E i \in DOMAIN input.chars : input.chars[i] = LBRACE
            /\ Res.text = SubSeq(input.chars, FirstBrace(input.chars),
                                 FirstBrace(input.chars) + Len(Res.text) - 1)
            /\ Res.text[Len(Res.text)] = RBRACE
        /\ frame.kind = "reclosed" => (Res.found /\ Res.text = frame.obj /\ Res.parsed = frame.val)
        /\ frame.kind = "broken" => (~Res.found /\ ~Res.raised)

\* {a} {"a":1} was scanned to its end and gave null.
C17_Witness ==
    /\ extracted.done /\ frame.kind = "broken"
    /\ input.chars = <<LBRACE, "a", RBRACE, SPACE>> \o frame.obj
    /\ JsonParse(frame.obj).ok /\ frame.val = JObj(<<<<(<<"a">>), JNum(1)>>>>)
    /\ ~Res.found /\ Res.iters = Len(input.chars)

(***************************************************************************)
(* Claims about what a save changes.                                       *)
(***************************************************************************)
\* The save handler in slot f finishes in this step, after storeEncryptedKey.
SaveFinishes(f) == tasks[f].pc = "storeEncryptedKey" /\ tasks'[f].pc = "idle"

\* C18: a save starts encrypting only after two prompts with equal non-empty
\* answers; a save that ends on the empty key field, an empty or cancelled
\* first passphrase, differing passphrases, a failed encryption or a failed
\* write leaves the stored and the session credential as they were; a save
\* whose write succeeded leaves the new object in storage and the saved key
\* as the session credential.
C18_SaveFrame ==
    [][\A f \in Tasks :
        /\ (tasks[f].pc = "idle" /\ tasks'[f].pc = "encryptApiKey") =>
                (out'.prompts = 2 /\ tasks'[f].pass # <<>> /\ tasks'[f].key # <<>>)
        /\ (out'.flow = "save" /\ out'.kind = "alert") =>
                (storage' = storage /\ sessionApiKey' = sessionApiKey)
        /\ (SaveFinishes(f) /\ ~out'.ok) =>
                (storage' = storage /\ sessionApiKey' = sessionApiKey)
        /\ (SaveFinishes(f) /\ out'.ok) =>
                /\ storage' = storeEncryptedKey(tasks[f].enc)
                /\ sessionApiKey' = Str(tasks[f].key)]_vars

(***************************************************************************)
(* Claims about the session credential against storage.                    *)
(***************************************************************************)
NoHandlerSuspended == \A f \in Tasks : tasks[f].pc = "idle"

\* C19: whenever no handler is suspended at an await and the session
\* credential is set, storage holds an object and that object is an
\* encryption of the session credential.
C19_SessionCoherent ==
    (NoHandlerSuspended /\ ~sessionApiKey.null) =>
        /\ storage.present
        /\ \E q \in Passphrases : <<sessionApiKey.s, q>> \in MadeFrom(storage.obj)

(***************************************************************************)
(* Claims about which renderer a returned object goes to.                  *)
(***************************************************************************)
\* C20: an object that an attempt's extraction produced is rendered by the
\* structured renderer, an object with a non-empty "__raw" member included;
\* a run's return ends in the raw view only when all three attempts failed
\* extraction.
C20_ParsedObjectRenderedStructured ==
    /\ (Responded /\ ResponseParses) =>
            (resultsDiv.view = "structured" /\ resultsDiv.data = out.ret)
    /\ (Responded /\ out.did = "return" /\ resultsDiv.view = "raw") => AllThreeFailed

====
